---- MODULE Spec2Model ----
(***************************************************************************)
(* Model of src/flat-database.cpp: the CFlatDB<T> framer (Write, Read) and *)
(* the two orchestration functions LoadFlatDB and DumpFlatDB.              *)
(*                                                                         *)
(* A file is a sequence of bytes.  The in-memory payload (the T object) is *)
(* a sequence of entries; an entry equal to Expired is what the payload's  *)
(* CheckAndRemove() drops.  The disk is one path (pathDB), which either    *)
(* cannot be opened for reading or holds a sequence of bytes.              *)
(***************************************************************************)
EXTENDS Integers, Sequences, FiniteSets, TLC

\* ------------------------------------------------------------------ bounds
MaxEntries == 2          \* longest payload (number of entries)

\* ------------------------------------------------------- program constants
HashSize == 32           \* sizeof(uint256)
MsgStartSize == 4        \* sizeof(pchMsgTmp)

\* strMagicMessage of this CFlatDB instance and Params().MessageStart()
strMagicMessage == <<1>>
MessageStart == <<1, 1, 1, 1>>

\* Tags other writers (another object type, another network) put in a file.
OtherMagicMessages == {<<2>>, <<1, 1>>}
MagicMessages == {strMagicMessage} \cup OtherMagicMessages
OtherMessageStarts ==
    {[MessageStart EXCEPT ![i] = 2] : i \in 1..MsgStartSize}
        \cup {[i \in 1..MsgStartSize |-> 2]}
MessageStarts == {MessageStart} \cup OtherMessageStarts

\* ------------------------------------------------------------ the payload T
Expired == 0
EntryValues == {0, 1}
Payloads == UNION {[1..n -> EntryValues] : n \in 0..MaxEntries}
Empty == <<>>

\* T::Clear()
Clear(o) == Empty

\* T::CheckAndRemove(): drops the expired entries
CheckAndRemove(o) == SelectSeq(o, LAMBDA e : e # Expired)

\* ssObj << objToSave : entry count, then the entries
SerializeObj(o) == <<Len(o)>> \o o

\* ssObj >> objToLoad : raises when the stream ends before the entries do;
\* bytes after the last entry stay in the stream
UnserializeObj(buf) ==
    IF Len(buf) = 0 \/ buf[1] > Len(buf) - 1
    THEN [ok |-> FALSE, val |-> Empty]
    ELSE [ok |-> TRUE, val |-> SubSeq(buf, 2, buf[1] + 1)]

\* ------------------------------------------------------------ serialization
\* ssObj << std::string : compact size, then the characters
WriteString(s) == <<Len(s)>> \o s

\* ssObj >> std::string : raises when the stream is empty or shorter than
\* the size it announces
ReadString(buf) ==
    IF Len(buf) = 0 \/ buf[1] > Len(buf) - 1
    THEN [ok |-> FALSE, val |-> <<>>, rest |-> <<>>]
    ELSE [ok |-> TRUE,
          val |-> SubSeq(buf, 2, buf[1] + 1),
          rest |-> SubSeq(buf, buf[1] + 2, Len(buf))]

\* Hash(begin, end): a 32-byte digest, injective on buffers shorter than
\* HashSize (the buffer, zero padded, and its length in the last byte)
Hash(buf) ==
    [i \in 1..HashSize |->
        IF i = HashSize THEN Len(buf)
        ELSE IF i <= Len(buf) THEN buf[i] ELSE 0]

\* The stream Write builds in lines 89-92, for any instance's tags
Body(magic, start, o) == WriteString(magic) \o start \o SerializeObj(o)

\* Lines 89-94: the stream with its checksum appended
Frame(magic, start, o) ==
    LET ssObj == Body(magic, start, o) IN ssObj \o Hash(ssObj)

\* ------------------------------------------------------------------- results
ReadResults ==
    {"Ok", "FileError", "HashReadError", "IncorrectHash",
     "IncorrectMagicMessage", "IncorrectMagicNumber", "IncorrectFormat"}

\* The path as fopen(..., "rb") finds it
NoFile == [exists |-> FALSE, bytes |-> <<>>]
FileOf(bytes) == [exists |-> TRUE, bytes |-> bytes]

\* ---------------------------------------------------------- CFlatDB<T>::Read
\* Lines 133-137: the size of the data in front of the checksum
DataSize(fileSize) ==
    LET dataSize == fileSize - HashSize
    IN IF dataSize < 0 THEN 0 ELSE dataSize

\* Lines 138-151: read dataSize bytes, then the checksum.  &vchData[0] on
\* the empty vector (dataSize = 0) is undefined behaviour: with ub the build
\* stops there, without it the read of zero bytes goes on.  filein >> hashIn
\* raises at the end of the file when less than HashSize bytes are left,
\* which the handler in line 147 turns into HashReadError.
ReadData(bytes, ub) ==
    LET fileSize == Len(bytes)
        dataSize == DataSize(fileSize)
    IN IF dataSize = 0 /\ ub
       THEN [res |-> "Crash", vchData |-> <<>>, hashIn |-> <<>>]
       ELSE IF fileSize - dataSize < HashSize
       THEN [res |-> "HashReadError", vchData |-> <<>>, hashIn |-> <<>>]
       ELSE [res |-> "Ok",
             vchData |-> SubSeq(bytes, 1, dataSize),
             hashIn |-> SubSeq(bytes, dataSize + 1, dataSize + HashSize)]

\* (mutant) the comparison of line 157 dropped
ChecksumNeverMismatch(hashIn, vchData) == FALSE

\* Lines 156-157: hashIn != hashTmp
ChecksumMismatch(hashIn, vchData) == hashIn # Hash(vchData)

\* (mutant) only the first character of the type-tag compared
MagicMessageMismatchFirstChar(strMagicMessageTmp) ==
    \/ Len(strMagicMessageTmp) = 0
    \/ strMagicMessage[1] # strMagicMessageTmp[1]

\* (mutant) the comparison of line 171 dropped
MagicMessageNeverMismatch(strMagicMessageTmp) == FALSE

\* Line 171: strMagicMessage != strMagicMessageTmp
MagicMessageMismatch(strMagicMessageTmp) == strMagicMessage # strMagicMessageTmp

\* (mutant) memcmp over one byte less than sizeof(pchMsgTmp)
MagicNumberMismatchShort(pchMsgTmp) ==
    \E i \in 1..(MsgStartSize - 1) : pchMsgTmp[i] # MessageStart[i]

\* Line 182: memcmp(pchMsgTmp, Params().MessageStart(), sizeof(pchMsgTmp))
MagicNumberMismatch(pchMsgTmp) ==
    \E i \in 1..MsgStartSize : pchMsgTmp[i] # MessageStart[i]

\* (mutant) lines 200-202 outside the test of line 199
AfterLoadAlways(o, fDryRun) == CheckAndRemove(o)

\* (mutant) line 199 with the test inverted
AfterLoadInverted(o, fDryRun) == IF fDryRun THEN CheckAndRemove(o) ELSE o

\* Lines 199-203: the maintenance hook runs unless this is a dry run
AfterLoad(o, fDryRun) == IF fDryRun THEN o ELSE CheckAndRemove(o)

\* (mutant) the handler of line 191 without the Clear of line 192
OnFormatErrorKeeps(objToLoad) == objToLoad

\* Lines 191-195: the handler clears the object
OnFormatError(objToLoad) == Clear(objToLoad)

\* (mutant) the object cleared before the returns of lines 174 and 185
OnTagMismatchClears(objToLoad) == Clear(objToLoad)

\* Lines 171-175 and 182-186: the returns inside the try block leave the
\* object alone
OnTagMismatch(objToLoad) == objToLoad

\* Lines 164-205: the header and the object, from a stream whose checksum
\* matched.  hook tells whether CheckAndRemove was called.
ReadStream(ssObj, objToLoad, fDryRun) ==
    LET msg == ReadString(ssObj)
        failed == [res |-> "IncorrectFormat", obj |-> OnFormatError(objToLoad),
                   hook |-> FALSE]
    IN IF ~msg.ok THEN failed
       ELSE IF MagicMessageMismatch(msg.val)
       THEN [res |-> "IncorrectMagicMessage",
             obj |-> OnTagMismatch(objToLoad), hook |-> FALSE]
       ELSE IF Len(msg.rest) < MsgStartSize THEN failed
       ELSE IF MagicNumberMismatch(SubSeq(msg.rest, 1, MsgStartSize))
       THEN [res |-> "IncorrectMagicNumber",
             obj |-> OnTagMismatch(objToLoad), hook |-> FALSE]
       ELSE LET body == UnserializeObj(
                            SubSeq(msg.rest, MsgStartSize + 1, Len(msg.rest)))
            IN IF ~body.ok THEN failed
               ELSE [res |-> "Ok", obj |-> AfterLoad(body.val, fDryRun),
                     hook |-> ~fDryRun]

\* Lines 118-206: Read(objToLoad, fDryRun) on the file f
ReadOp(f, objToLoad, fDryRun, ub) ==
    IF ~f.exists
    THEN [res |-> "FileError", obj |-> objToLoad, hook |-> FALSE]
    ELSE LET in == ReadData(f.bytes, ub)
         IN IF in.res # "Ok"
            THEN [res |-> in.res, obj |-> objToLoad, hook |-> FALSE]
            ELSE IF ChecksumMismatch(in.hashIn, in.vchData)
            THEN [res |-> "IncorrectHash", obj |-> objToLoad, hook |-> FALSE]
            ELSE ReadStream(in.vchData, objToLoad, fDryRun)

\* Whether line 144 indexes an empty vector on this file
EmptyData(f) == f.exists /\ DataSize(Len(f.bytes)) = 0
UbChoices(f) == IF EmptyData(f) THEN BOOLEAN ELSE {FALSE}

\* --------------------------------------------------------- CFlatDB<T>::Write
WriteOutcomes == {"ok", "openfail", "ioerror"}

\* Lines 82-115: Write(objToSave) on the file f.  fopen(..., "wb") either
\* fails and leaves the path alone, or empties the file; fileout << ssObj
\* either writes the whole stream or raises after the first n bytes.
WriteOp(f, objToSave, outcome, n) ==
    LET ssObj == Frame(strMagicMessage, MessageStart, objToSave)
    IN IF outcome = "openfail" THEN [ok |-> FALSE, file |-> f]
       ELSE IF outcome = "ioerror"
       THEN [ok |-> FALSE, file |-> FileOf(SubSeq(ssObj, 1, n))]
       ELSE [ok |-> TRUE, file |-> FileOf(ssObj)]

\* The lengths an interrupted write can leave behind: nothing, a cut inside
\* the data, the data without its checksum, a cut inside the checksum.
PartialLens(objToSave) ==
    LET ssObj == Frame(strMagicMessage, MessageStart, objToSave)
    IN {0, 1, Len(ssObj) - HashSize, HashSize - 1, HashSize, Len(ssObj) - 1}

\* (mutant) LoadFlatDB aborting on HashReadError only
LoadProceedsUnlessHashReadError(readResult) == readResult # "HashReadError"

\* (mutant) LoadFlatDB without the return of line 26
LoadProceedsAlways(readResult) == TRUE

\* (mutant) LoadFlatDB returning false for IncorrectFormat too
LoadProceedsUnlessFormat(readResult) ==
    readResult \in {"Ok", "FileError"}

\* (mutant) LoadFlatDB aborting on every result but Ok
LoadProceedsOnOk(readResult) == readResult = "Ok"

\* ------------------------------------------------------- LoadFlatDB, DumpFlatDB
\* Lines 14-28: whether LoadFlatDB goes on to line 30 after Read returned
LoadProceeds(readResult) ==
    IF readResult = "FileError" THEN TRUE
    ELSE IF readResult # "Ok"
    THEN IF readResult = "IncorrectFormat" THEN TRUE ELSE FALSE
    ELSE TRUE

\* (mutant) DumpFlatDB aborting on HashReadError only
DumpProceedsUnlessHashReadError(readResult) == readResult # "HashReadError"

\* (mutant) DumpFlatDB without the return of line 56
DumpProceedsAlways(readResult) == TRUE

\* Lines 46-58: whether DumpFlatDB goes on to line 60 after Read returned
DumpProceeds(readResult) ==
    IF readResult = "FileError" THEN TRUE
    ELSE IF readResult # "Ok"
    THEN IF readResult = "IncorrectFormat" THEN TRUE ELSE FALSE
    ELSE TRUE

\* ------------------------------------------------- the lock taken by Write
\* (mutant) Write without line 84, as Read is without line 120
NoLockAtEntry(owner) == owner

\* Line 84: LOCK(objToSave.cs) makes the calling thread the owner
LockAtEntry(owner) == "writer"

\* Lines 100, 107, 114: the lock taken at line 84 lasts to the end of the
\* function body, so each return gives it up
UnlockAtReturn(owner) == IF owner = "writer" THEN "free" ELSE owner

\* ---------------------------------------------------------------------- state
VARIABLES
    file,    \* the file at pathDB: [exists, bytes]
    obj,     \* the payload object the application holds
    prov,    \* history: how the file at pathDB came to be
    last,    \* history: the most recent call and what it did
    cs,      \* objToSave.cs: who holds the payload's lock
    wpc,     \* where the thread inside Write stands
    mpc,     \* where the thread that changes the payload stands
    stream,  \* ssObj of the Write in progress
    snap     \* history: the payload when Write passed line 84

lockvars == <<cs, wpc, mpc, stream, snap>>
vars == <<file, obj, prov, last, cs, wpc, mpc, stream, snap>>

NoCall ==
    [op |-> "none", dry |-> FALSE, objIn |-> Empty, res |-> "none",
     res2 |-> "none", ret |-> "none", wrote |-> FALSE, wok |-> FALSE,
     objOut |-> Empty, hooks |-> 0]

\* kind: how the bytes came about; base: the bytes before a flip (else the
\* bytes themselves); pos: the flipped position; src: the payload a Write
\* of this run serialized into them
Prov(kind, base, pos, src) ==
    [kind |-> kind, base |-> base, pos |-> pos, src |-> src]

\* Files that are on disk when the process starts: none, a file some
\* instance wrote (any type tag, any network, any payload), or a stream cut
\* short and given a matching checksum.
FramedFiles ==
    {Frame(m, s, o) : m \in MagicMessages, s \in MessageStarts, o \in Payloads}
CutBodies ==
    UNION {{SubSeq(Body(m, MessageStart, o), 1, n) :
                n \in 0..(Len(Body(m, MessageStart, o)) - 1)} :
           m \in MagicMessages, o \in Payloads}
ResealedFiles == {b \o Hash(b) : b \in CutBodies}
\* ... or a stream of any instance followed by the checksum of other data
StaleFiles ==
    {Body(m, s, o) \o Hash(<<>>) :
        m \in MagicMessages,
        s \in {MessageStart, [i \in 1..MsgStartSize |-> 2]},
        o \in Payloads}

\* No call of Write is in progress and nobody holds the lock.
LockInit ==
    /\ cs = "free" /\ wpc = "idle" /\ mpc = "idle"
    /\ stream = <<>> /\ snap = Empty

Init ==
    /\ LockInit
    /\ obj = Empty
    /\ last = NoCall
    /\ \/ file = NoFile /\ prov = Prov("absent", <<>>, 0, Empty)
       \/ \E b \in FramedFiles :
            file = FileOf(b) /\ prov = Prov("framed", b, 0, Empty)
       \/ \E b \in ResealedFiles :
            file = FileOf(b) /\ prov = Prov("resealed", b, 0, Empty)
       \/ \E b \in StaleFiles :
            file = FileOf(b) /\ prov = Prov("stale", b, 0, Empty)

\* -------------------------------------------------------------------- actions
\* The application changes its payload between calls.
SetPayload(o) ==
    /\ o # obj
    /\ obj' = o
    /\ last' = NoCall
    /\ UNCHANGED <<file, prov, lockvars>>

\* flatdb.Read(obj, fDryRun), called directly.  When the program stops at
\* the undefined behaviour of line 144 ("Crash") the next run of the
\* program starts with a newly constructed payload.
Read(fDryRun) ==
    \E ub \in UbChoices(file) :
        LET r == ReadOp(file, obj, fDryRun, ub)
        IN /\ obj' = IF r.res = "Crash" THEN Empty ELSE r.obj
           /\ last' = [NoCall EXCEPT !.op = "Read", !.dry = fDryRun,
                          !.objIn = obj, !.res = r.res, !.ret = r.res,
                          !.objOut = r.obj,
                          !.hooks = IF r.hook THEN 1 ELSE 0]
           /\ UNCHANGED <<file, prov, lockvars>>

\* flatdb.Write(obj), called directly
Write ==
    \E outcome \in WriteOutcomes :
    \E n \in IF outcome = "ioerror" THEN PartialLens(obj) ELSE {0} :
        LET w == WriteOp(file, obj, outcome, n)
        IN /\ file' = w.file
           /\ prov' = IF outcome = "ok" THEN Prov("written", w.file.bytes, 0, obj)
                      ELSE IF outcome = "ioerror"
                      THEN Prov("partial", w.file.bytes, 0, obj)
                      ELSE prov
           /\ last' = [NoCall EXCEPT !.op = "Write", !.objIn = obj,
                          !.ret = IF w.ok THEN "true" ELSE "false",
                          !.wrote = TRUE, !.wok = w.ok, !.objOut = obj]
           /\ UNCHANGED <<obj, lockvars>>

\* LoadFlatDB(obj, flatdb), lines 10-34.  Both reads run in the same build,
\* so line 144 behaves the same way in both.
LoadFlatDB ==
    \E ub \in UbChoices(file) :
        LET r1 == ReadOp(file, obj, FALSE, ub)
            r2 == ReadOp(file, r1.obj, FALSE, ub)
            h1 == IF r1.hook THEN 1 ELSE 0
            h2 == IF r2.hook THEN 1 ELSE 0
        IN /\ UNCHANGED <<file, prov, lockvars>>
           /\ IF r1.res = "Crash"
              THEN /\ obj' = Empty
                   /\ last' = [NoCall EXCEPT !.op = "Load", !.objIn = obj,
                                  !.res = r1.res, !.ret = "crash"]
              ELSE IF ~LoadProceeds(r1.res)
              THEN /\ obj' = r1.obj
                   /\ last' = [NoCall EXCEPT !.op = "Load", !.objIn = obj,
                                  !.res = r1.res, !.ret = "abort",
                                  !.objOut = r1.obj, !.hooks = h1]
              ELSE IF r2.res = "Crash"
              THEN /\ obj' = Empty
                   /\ last' = [NoCall EXCEPT !.op = "Load", !.objIn = obj,
                                  !.res = r1.res, !.res2 = r2.res,
                                  !.ret = "crash", !.hooks = h1]
              ELSE /\ obj' = r2.obj
                   /\ last' = [NoCall EXCEPT !.op = "Load", !.objIn = obj,
                                  !.res = r1.res, !.res2 = r2.res,
                                  !.ret = "proceed", !.objOut = r2.obj,
                                  !.hooks = h1 + h2]

\* DumpFlatDB(obj, flatdb), lines 36-65
DumpFlatDB ==
    /\ UNCHANGED lockvars
    /\ \E ub \in UbChoices(file) :
        LET r == ReadOp(file, obj, TRUE, ub)
            h == IF r.hook THEN 1 ELSE 0
        IN IF r.res = "Crash"
           THEN /\ obj' = Empty
                /\ last' = [NoCall EXCEPT !.op = "Dump", !.dry = TRUE,
                               !.objIn = obj, !.res = r.res, !.ret = "crash"]
                /\ UNCHANGED <<file, prov>>
           ELSE IF ~DumpProceeds(r.res)
           THEN /\ obj' = r.obj
                /\ last' = [NoCall EXCEPT !.op = "Dump", !.dry = TRUE,
                               !.objIn = obj, !.res = r.res, !.ret = "abort",
                               !.objOut = r.obj, !.hooks = h]
                /\ UNCHANGED <<file, prov>>
           ELSE \E outcome \in WriteOutcomes :
                \E n \in IF outcome = "ioerror"
                         THEN PartialLens(r.obj) ELSE {0} :
                    LET w == WriteOp(file, r.obj, outcome, n)
                    IN /\ obj' = r.obj
                       /\ file' = w.file
                       /\ prov' = IF outcome = "ok"
                                  THEN Prov("written", w.file.bytes, 0, r.obj)
                                  ELSE IF outcome = "ioerror"
                                  THEN Prov("partial", w.file.bytes, 0, r.obj)
                                  ELSE prov
                       /\ last' = [NoCall EXCEPT !.op = "Dump", !.dry = TRUE,
                                      !.objIn = obj, !.res = r.res,
                                      !.ret = "proceed", !.wrote = TRUE,
                                      !.wok = w.ok, !.objOut = r.obj,
                                      !.hooks = h]

\* The files Write produces
WrittenFiles == {Frame(strMagicMessage, MessageStart, o) : o \in Payloads}

\* One byte of an intact file that Write produced changes on disk.
FlipValues == {0, 1, 2}
EnvFlip ==
    /\ prov.kind \in {"framed", "written"}
    /\ file.bytes \in WrittenFiles
    /\ \E i \in 1..Len(file.bytes), b \in FlipValues :
        /\ b # file.bytes[i]
        /\ file' = FileOf([file.bytes EXCEPT ![i] = b])
        /\ prov' = Prov("flipped", file.bytes, i, Empty)
    /\ last' = NoCall
    /\ UNCHANGED <<obj, lockvars>>

\* The file is removed.
EnvDelete ==
    /\ file.exists
    /\ file' = NoFile
    /\ prov' = Prov("absent", <<>>, 0, Empty)
    /\ last' = NoCall
    /\ UNCHANGED <<obj, lockvars>>

Next ==
    \/ \E o \in Payloads : SetPayload(o)
    \/ \E fDryRun \in BOOLEAN : Read(fDryRun)
    \/ Write
    \/ LoadFlatDB
    \/ DumpFlatDB
    \/ EnvFlip
    \/ EnvDelete

Spec == Init /\ [][Next]_vars

\* ------------------------------------------ Write, line by line, with a second
\* thread of the application that changes the payload under the payload's lock
\* Line 84
W_Lock ==
    /\ wpc = "idle" /\ cs = "free"
    /\ cs' = LockAtEntry(cs)
    /\ snap' = obj
    /\ stream' = <<>>
    /\ wpc' = "magic"
    /\ UNCHANGED <<file, obj, prov, last, mpc>>

\* Line 90
W_Magic ==
    /\ wpc = "magic"
    /\ stream' = WriteString(strMagicMessage)
    /\ wpc' = "start"
    /\ UNCHANGED <<file, obj, prov, last, cs, mpc, snap>>

\* Line 91
W_Start ==
    /\ wpc = "start"
    /\ stream' = stream \o MessageStart
    /\ wpc' = "count"
    /\ UNCHANGED <<file, obj, prov, last, cs, mpc, snap>>

\* Line 92, first the number of entries ...
W_ObjCount ==
    /\ wpc = "count"
    /\ stream' = stream \o <<Len(obj)>>
    /\ wpc' = "entries"
    /\ UNCHANGED <<file, obj, prov, last, cs, mpc, snap>>

\* ... then the entries
W_ObjEntries ==
    /\ wpc = "entries"
    /\ stream' = stream \o obj
    /\ wpc' = "hash"
    /\ UNCHANGED <<file, obj, prov, last, cs, mpc, snap>>

\* Lines 93-94
W_Hash ==
    /\ wpc = "hash"
    /\ stream' = stream \o Hash(stream)
    /\ wpc' = "open"
    /\ UNCHANGED <<file, obj, prov, last, cs, mpc, snap>>

\* Lines 97-100: fopen fails and Write returns, or the file is emptied
W_Open ==
    /\ wpc = "open"
    /\ \/ /\ wpc' = "idle"
          /\ cs' = UnlockAtReturn(cs)
          /\ last' = [NoCall EXCEPT !.op = "Write", !.objIn = snap,
                         !.ret = "false", !.wrote = TRUE, !.objOut = obj]
          /\ UNCHANGED <<file, prov>>
       \/ /\ wpc' = "out"
          /\ file' = FileOf(<<>>)
          /\ prov' = Prov("partial", <<>>, 0, snap)
          /\ UNCHANGED <<cs, last>>
    /\ UNCHANGED <<obj, mpc, stream, snap>>

\* Lines 103-108: the stream is written, or the output raises after n bytes
\* and Write returns
W_Out ==
    /\ wpc = "out"
    /\ \/ /\ file' = FileOf(stream)
          /\ prov' = Prov("written", stream, 0, snap)
          /\ wpc' = "close"
          /\ UNCHANGED <<cs, last>>
       \/ \E n \in PartialLens(snap) :
             /\ n < Len(stream)
             /\ file' = FileOf(SubSeq(stream, 1, n))
             /\ prov' = Prov("partial", SubSeq(stream, 1, n), 0, snap)
             /\ wpc' = "idle"
             /\ cs' = UnlockAtReturn(cs)
             /\ last' = [NoCall EXCEPT !.op = "Write", !.objIn = snap,
                            !.ret = "false", !.wrote = TRUE, !.objOut = obj]
    /\ UNCHANGED <<obj, mpc, stream, snap>>

\* Lines 109-114
W_Return ==
    /\ wpc = "close"
    /\ wpc' = "idle"
    /\ cs' = UnlockAtReturn(cs)
    /\ last' = [NoCall EXCEPT !.op = "Write", !.objIn = snap, !.ret = "true",
                   !.wrote = TRUE, !.wok = TRUE, !.objOut = obj]
    /\ UNCHANGED <<file, obj, prov, mpc, stream, snap>>

\* The application's thread takes the payload's lock, ...
M_Lock ==
    /\ mpc = "idle" /\ cs = "free"
    /\ cs' = "mutator"
    /\ mpc' = "in"
    /\ UNCHANGED <<file, obj, prov, last, wpc, stream, snap>>

\* ... changes the payload, ...
M_Mutate(o) ==
    /\ mpc = "in"
    /\ o # obj
    /\ obj' = o
    /\ mpc' = "done"
    /\ UNCHANGED <<file, prov, last, cs, wpc, stream, snap>>

\* ... and gives the lock up.
M_Unlock ==
    /\ mpc = "done"
    /\ cs' = IF cs = "mutator" THEN "free" ELSE cs
    /\ mpc' = "idle"
    /\ UNCHANGED <<file, obj, prov, last, wpc, stream, snap>>

InitLock ==
    /\ LockInit
    /\ obj = Empty
    /\ last = NoCall
    /\ file = NoFile /\ prov = Prov("absent", <<>>, 0, Empty)

NextLock ==
    \/ W_Lock
    \/ W_Magic
    \/ W_Start
    \/ W_ObjCount
    \/ W_ObjEntries
    \/ W_Hash
    \/ W_Open
    \/ W_Out
    \/ W_Return
    \/ M_Lock
    \/ \E o \in Payloads : M_Mutate(o)
    \/ M_Unlock

SpecLock == InitLock /\ [][NextLock]_vars

\* ===================================================================== claims
RecreateCodes ==
    {"IncorrectHash", "IncorrectMagicMessage", "IncorrectMagicNumber"}

\* The data in front of the checksum of a file of at least HashSize bytes,
\* and whether the checksum is the hash of that data
DataOf(bytes) == SubSeq(bytes, 1, Len(bytes) - HashSize)
ChecksumValid(f) ==
    /\ f.exists
    /\ Len(f.bytes) >= HashSize
    /\ SubSeq(f.bytes, Len(f.bytes) - HashSize + 1, Len(f.bytes))
           = Hash(DataOf(f.bytes))
\* The data starts with the serialized type-tag m
StartsWithTag(data, m) ==
    /\ Len(data) >= Len(m) + 1
    /\ SubSeq(data, 1, Len(m) + 1) = WriteString(m)

\* C1: a non-dry-run Read of the file a successful Write(P) produced returns
\* Ok and leaves the payload equal to P without its expired entries.
C1_RoundTrip ==
    (last.op = "Read" /\ ~last.dry /\ prov.kind = "written")
        => (last.res = "Ok" /\ obj = CheckAndRemove(prov.src))
C1_Witness ==
    /\ last.op = "Read" /\ ~last.dry /\ prov.kind = "written"
    /\ prov.src = <<0, 1>> /\ last.objIn = <<0>>
    /\ last.res = "Ok" /\ obj = <<1>>

\* C2: whenever Save reaches Write, the payload handed to Write is the
\* payload the caller passed to Save, and after a successful Write the file
\* holds that payload.
C2_SavePersistsPayload ==
    (last.op = "Dump" /\ last.wrote)
        => /\ last.objOut = last.objIn
           /\ last.wok =>
                file.bytes = Frame(strMagicMessage, MessageStart, last.objIn)

\* C3 as stated: when the dry-run Read returns IncorrectHash,
\* IncorrectMagicMessage or IncorrectMagicNumber, Save does not abort and
\* goes on to Write.
C3_SaveRecreates ==
    (last.op = "Dump" /\ last.res \in RecreateCodes)
        => (last.ret = "proceed" /\ last.wrote)
\* C3 amended: in those three cases Save aborts, Write is not attempted and
\* the file stays as it was.
C3_SaveAbortsOnRecreateCodes ==
    [][(last'.op = "Dump" /\ last'.res \in RecreateCodes)
          => (last'.ret = "abort" /\ ~last'.wrote /\ file' = file)]_vars
C3_Witness ==
    /\ last.op = "Dump" /\ last.res = "IncorrectHash" /\ last.ret = "abort"
    /\ prov.kind = "flipped"

\* C4: when the dry-run Read returns HashReadError, Save returns abort,
\* Write is not attempted and the file is the same bytes as before.
C4_SaveAbortsOnHashReadError ==
    [][(last'.op = "Dump" /\ last'.res = "HashReadError")
          => (last'.ret = "abort" /\ ~last'.wrote /\ file' = file)]_vars
C4_Witness ==
    /\ last.op = "Dump" /\ last.res = "HashReadError" /\ last.ret = "abort"
    /\ file.exists /\ Len(file.bytes) > 0 /\ ~last.wrote

\* C5 as stated: Load proceeds on IncorrectHash, IncorrectMagicMessage and
\* IncorrectMagicNumber, and aborts on HashReadError only.
C5_LoadRecreates ==
    (last.op = "Load")
        => /\ last.res \in RecreateCodes => last.ret = "proceed"
           /\ last.ret = "abort" => last.res = "HashReadError"
\* C5 amended: Load aborts exactly when the first Read returns
\* HashReadError, IncorrectHash, IncorrectMagicMessage or
\* IncorrectMagicNumber.
C5_LoadAbortsOnRecreateCodes ==
    (last.op = "Load")
        => (last.ret = "abort"
              <=> last.res \in RecreateCodes \cup {"HashReadError"})
C5_Witness ==
    /\ last.op = "Load" /\ last.res = "IncorrectMagicNumber"
    /\ last.ret = "abort"

\* C6: a file Write produced, with one byte of its type-tag, network-tag or
\* payload region changed and its checksum left as written, makes Read
\* return IncorrectHash.
C6_ChecksumSensitivity ==
    (/\ last.op = "Read"
     /\ prov.kind = "flipped"
     /\ prov.base \in WrittenFiles
     /\ prov.pos <= Len(prov.base) - HashSize)
        => last.res = "IncorrectHash"
C6_Witness ==
    /\ last.op = "Read" /\ prov.kind = "flipped"
    /\ prov.base = Frame(strMagicMessage, MessageStart, <<1, 0>>)
    /\ prov.pos = Len(prov.base) - HashSize
    /\ last.res = "IncorrectHash"

\* C7: when the file cannot be opened, Read returns FileError, Load returns
\* proceed, and the payload is what it was before the call, with the
\* maintenance hook not run.
C7_Absence ==
    /\ (last.op = "Read" /\ ~file.exists)
          => (last.res = "FileError" /\ obj = last.objIn /\ last.hooks = 0)
    /\ (last.op = "Load" /\ ~file.exists)
          => /\ last.res = "FileError" /\ last.res2 = "FileError"
             /\ last.ret = "proceed"
             /\ obj = last.objIn /\ last.hooks = 0
C7_Witness ==
    /\ last.op = "Load" /\ ~file.exists /\ last.ret = "proceed"
    /\ last.objIn = <<0, 1>> /\ obj = <<0, 1>>

\* C8: on a file shorter than the checksum Read does not stop the program
\* and returns IncorrectHash (such a file holds no complete checksum field,
\* so the field cannot equal the hash of the empty buffer).
C8_TruncationIsIncorrectHash ==
    (last.op = "Read" /\ file.exists /\ Len(file.bytes) < HashSize)
        => last.res = "IncorrectHash"

\* C9: a checksum-valid file whose type-tag is not the expected one makes
\* Read return IncorrectMagicMessage, whatever follows the type-tag.
C9_TypeTagFirst ==
    (/\ last.op = "Read"
     /\ ChecksumValid(file)
     /\ \E m \in OtherMagicMessages : StartsWithTag(DataOf(file.bytes), m))
        => last.res = "IncorrectMagicMessage"
C9_Witness ==
    /\ last.op = "Read"
    /\ file.bytes = Frame(<<1, 1>>, [MessageStart EXCEPT ![1] = 2], <<1>>)
    /\ last.res = "IncorrectMagicMessage"

\* C10: a checksum-valid file with the expected type-tag and a network-tag
\* that differs from the expected one in some position makes Read return
\* IncorrectMagicNumber and leaves the payload as it was.
C10_NetworkTag ==
    (/\ last.op = "Read"
     /\ \E s \in OtherMessageStarts, o \in Payloads :
            file.bytes = Frame(strMagicMessage, s, o))
        => (last.res = "IncorrectMagicNumber" /\ obj = last.objIn)
C10_Witness ==
    /\ last.op = "Read"
    /\ file.bytes = Frame(strMagicMessage,
                          [MessageStart EXCEPT ![MsgStartSize] = 2], <<0>>)
    /\ last.objIn = <<1>> /\ obj = <<1>>
    /\ last.res = "IncorrectMagicNumber"

\* C11: a dry-run Read never runs the maintenance hook and never changes
\* the file; the hook runs only in a Read that is not a dry run and returns
\* Ok.  (After a dry run that returns Ok the payload still holds the expired
\* entries of the file.)
C11_DryRunPurity ==
    [][/\ (last'.op = "Read")
            => /\ file' = file
               /\ last'.dry
                    => /\ last'.hooks = 0
                       /\ (last'.res = "Ok" /\ prov.kind = "written")
                             => obj' = prov.src
               /\ last'.hooks > 0 => (~last'.dry /\ last'.res = "Ok")
       /\ (last'.op = "Dump")
            => /\ last'.hooks = 0
               /\ (last'.res = "Ok" /\ prov.kind = "written")
                     => last'.objOut = prov.src]_vars
C11_Witness ==
    /\ last.op = "Read" /\ last.dry /\ last.res = "Ok" /\ last.hooks = 0
    /\ prov.kind = "written" /\ prov.src = <<0, 1>>
    /\ last.objIn = <<>> /\ obj = <<0, 1>>

\* The file holds a checksum field that is not the hash of the bytes in
\* front of it
ChecksumInvalid(f) ==
    /\ f.exists
    /\ Len(f.bytes) >= HashSize
    /\ ~ChecksumValid(f)

\* C12: on every file whose trailing checksum is not the hash of the bytes
\* in front of it, Read returns IncorrectHash and leaves the payload alone.
C12_ChecksumBeforeTags ==
    (last.op = "Read" /\ ChecksumInvalid(file))
        => (last.res = "IncorrectHash" /\ obj = last.objIn /\ last.hooks = 0)
\* C12, restricted to files with at least one byte in front of the checksum
C12_ChecksumBeforeTagsWithData ==
    (last.op = "Read" /\ ChecksumInvalid(file) /\ Len(file.bytes) > HashSize)
        => (last.res = "IncorrectHash" /\ obj = last.objIn /\ last.hooks = 0)

\* C13: whenever Read returns IncorrectFormat the payload is empty, and a
\* Load on such a file returns proceed with the payload empty.
C13_IncorrectFormatResets ==
    /\ (last.op = "Read" /\ last.res = "IncorrectFormat") => obj = Empty
    /\ (last.op = "Load" /\ last.res = "IncorrectFormat")
          => (last.ret = "proceed" /\ obj = Empty)
C13_Witness ==
    /\ last.op = "Load" /\ last.res = "IncorrectFormat"
    /\ last.ret = "proceed" /\ last.objIn = <<1>> /\ obj = Empty

\* C14: when the first Read returns HashReadError, Load returns abort, no
\* second Read is made, the hook is not run and the payload is unchanged.
C14_LoadAbort ==
    (last.op = "Load" /\ last.res = "HashReadError")
        => /\ last.ret = "abort" /\ last.res2 = "none"
           /\ last.hooks = 0 /\ obj = last.objIn
C14_Witness ==
    /\ last.op = "Load" /\ last.res = "HashReadError" /\ last.ret = "abort"
    /\ last.objIn = <<0, 1>> /\ obj = <<0, 1>>

\* The data cannot be parsed into a length-prefixed type-tag followed by a
\* complete network-tag
HeaderIncomplete(data) ==
    LET msg == ReadString(data)
    IN ~msg.ok \/ Len(msg.rest) < MsgStartSize

\* C16 as stated, for a Read that returns: on a checksum-valid file whose
\* header cannot be parsed, Read returns IncorrectFormat with the payload
\* empty, whether or not the type-tag that was parsed is the expected one.
C16_TagParseFailureAlwaysFormat ==
    (/\ last.op = "Read" /\ last.res \in ReadResults
     /\ ChecksumValid(file) /\ HeaderIncomplete(DataOf(file.bytes)))
        => (last.res = "IncorrectFormat" /\ obj = Empty)
\* C16 amended: IncorrectFormat with the payload empty when the type-tag
\* cannot be parsed or is the expected one; IncorrectMagicMessage with the
\* payload unchanged when the type-tag that was parsed is another one; and
\* with no data at all the build either stops at line 144 or goes on to
\* IncorrectFormat.
C16_TagParseFailure ==
    (/\ last.op = "Read"
     /\ ChecksumValid(file) /\ HeaderIncomplete(DataOf(file.bytes)))
        => LET data == DataOf(file.bytes)
               msg == ReadString(data)
           IN IF data = <<>>
              THEN \/ last.res = "Crash"
                   \/ last.res = "IncorrectFormat" /\ obj = Empty
              ELSE IF msg.ok /\ msg.val # strMagicMessage
              THEN last.res = "IncorrectMagicMessage" /\ obj = last.objIn
              ELSE last.res = "IncorrectFormat" /\ obj = Empty
C16_Witness ==
    /\ last.op = "Read"
    /\ ChecksumValid(file)
    /\ DataOf(file.bytes) = WriteString(strMagicMessage) \o <<1, 1>>
    /\ last.objIn = <<1>> /\ obj = Empty
    /\ last.res = "IncorrectFormat"

\* C17: Load makes its second Read exactly when the first one did not stop
\* it; what Load returns is decided by the first Read's result; and after
\* proceed the payload is the one the second Read (not a dry run: the hook
\* has run twice on Ok) left.
C17_LoadReadSequence ==
    (last.op = "Load")
        => /\ last.res2 # "none" <=> last.ret = "proceed"
           /\ last.ret = "proceed"
                <=> last.res \in {"Ok", "FileError", "IncorrectFormat"}
           /\ last.ret = "abort"
                <=> last.res \in RecreateCodes \cup {"HashReadError"}
           /\ last.ret = "proceed"
                => /\ last.res2 = last.res
                   /\ last.hooks = (IF last.res = "Ok" THEN 2 ELSE 0)
                   /\ (last.res = "Ok" /\ prov.kind = "written")
                         => obj = CheckAndRemove(prov.src)
C17_Witness ==
    /\ last.op = "Load" /\ last.res = "Ok" /\ last.res2 = "Ok"
    /\ last.ret = "proceed" /\ last.hooks = 2
    /\ prov.kind = "written" /\ prov.src = <<0, 1>>
    /\ last.objIn = <<0>> /\ obj = <<1>>

\* C18: whenever Save returns proceed, Write was called and succeeded and
\* the file is a record on which Read returns Ok.
C18_SaveResultReflectsWrite ==
    (last.op = "Dump" /\ last.ret = "proceed")
        => /\ last.wrote /\ last.wok
           /\ ReadOp(file, obj, TRUE, FALSE).res = "Ok"

\* C19: whenever Read returns FileError, HashReadError, IncorrectHash,
\* IncorrectMagicMessage or IncorrectMagicNumber the payload is as it was
\* before the call and the hook has not run; a Read that changes the
\* payload returns Ok or IncorrectFormat.
C19_ReadFailureFrame ==
    (last.op = "Read" /\ last.res \in ReadResults)
        => /\ last.res \in RecreateCodes \cup {"FileError", "HashReadError"}
                => (obj = last.objIn /\ last.hooks = 0)
           /\ obj # last.objIn => last.res \in {"Ok", "IncorrectFormat"}
C19_Witness ==
    /\ last.op = "Read" /\ last.res = "IncorrectMagicMessage"
    /\ last.objIn = <<0, 1>> /\ obj = <<0, 1>>

\* Where Write stands between line 84 and its return
InWrite ==
    {"magic", "start", "count", "entries", "hash", "open", "out", "close"}

\* C15: from before the serialization starts Write holds the payload's lock
\* (and holds it until it returns), so the payload does not change while
\* its bytes are captured and the stream that is checksummed and written is
\* the record of one state of the payload; on every way out of Write (fopen
\* failed, the output raised, success) the lock is given up.
C15_WriteLocking ==
    /\ wpc \in InWrite => (cs = "writer" /\ obj = snap /\ mpc = "idle")
    /\ wpc \in {"open", "out", "close"}
          => stream = Frame(strMagicMessage, MessageStart, snap)
    /\ wpc = "idle" => cs # "writer"
C15_Witness ==
    /\ wpc = "idle" /\ last.op = "Write" /\ last.ret = "false"
    /\ file.exists /\ prov.kind = "partial"
    /\ last.objIn = <<0, 1>>
    /\ mpc = "in" /\ cs = "mutator"

====
